---- MODULE Spec2Model ----
(***************************************************************************)
(* grisbi2ledger.py: a Grisbi file is loaded into a Data object (entities  *)
(* keyed by number, references resolved in a second pass), sanity-checked  *)
(* (Data.check), cleaned (Data.clean folds splits and transfers) and       *)
(* written out as a Ledger file (Data.generate_output).                    *)
(*                                                                         *)
(* Object references are modelled by the number of the object they point   *)
(* to (numbers are unique per kind); 0 stands for None, as in the source's *)
(* "int(...) or None".                                                     *)
(***************************************************************************)
EXTENDS Integers, Sequences, FiniteSets

VARIABLES doc, data, pc, verdict, findings, error, exitCode, outputOpened,
          cleanRuns, stages, output

vars == <<doc, data, pc, verdict, findings, error, exitCode, outputOpened,
          cleanRuns, stages, output>>

----------------------------------------------------------------------------
(* Bounds of the model.                                                    *)

\* Largest number of Transaction records in a document.
MaxTxn == 3

\* Largest number of attribute values in which a document of Spec differs
\* from a plain document.
MaxEdits == 3

\* Number of times Data.clean is called on one Data object in SpecCollapse.
MaxCleanRuns == 2

\* Largest number of Currency records in a document.
MaxCur == 3

----------------------------------------------------------------------------
(* The input document.                                                     *)

AccIds == {1, 2}
RecIds == {1, 2}
TxnIds == 1..MaxTxn

\* The value of the Ma attribute of a reconciled transaction.
MarkedReconciled == 3

\* reconciliation field values: None, the raw number read from the Re
\* attribute, or the Reconcile object found in data.reconciles.
NoRec == <<"None", 0>>
RawRec(r) == <<"int", r>>
RecObj(r) == <<"Reconcile", r>>

\* The text that Grisbi writes for an absent string, and the values of
\* string fields: None or a string.
Null == "(null)"
None == <<"None">>
Str(s) == <<"str", s>>

\* A date (Dt, Fdate) is the number of its day in the calendar; 0 stands for
\* the date "(null)", which _parse_date turns into None.
\* An ordinary categorised payment on account 1, on day 1, without bank
\* reference.
PlainTxn == [Ac |-> 1, Pa |-> 1, Ca |-> 1, Br |-> 0, Ma |-> 0, Re |-> 0,
             Trt |-> 0, Mo |-> 0, Dt |-> 1, Ba |-> Null]

\* A currency with a symbol of its own.
PlainCur == [Co |-> "$", Ico |-> "CAD"]

\* A document with n plain transactions, in ascending order of number: two
\* accounts without opening balance, one category with one subcategory,
\* two reconciliations of account 1 on different dates, one currency, which
\* both accounts hold; the Account records in ascending order of number.
PlainDoc(n) ==
  [txns     |-> [i \in 1..n |-> PlainTxn],
   order    |-> [i \in 1..n |-> i],
   bal      |-> [a \in AccIds |-> 0],
   accOrder |-> <<1, 2>>,
   catBad   |-> FALSE,
   subBad   |-> FALSE,
   recs     |-> [r \in RecIds |-> [Acc |-> 1, Fdate |-> r]],
   curs     |-> <<PlainCur>>,
   curOrder |-> <<1>>]

Reverse(s) == [i \in 1..Len(s) |-> s[Len(s) + 1 - i]]

\* One changed attribute value: <<attribute, record number, value>>.
GlobalEdits ==
  << <<"Initial_balance", 1, 100>>, <<"Initial_balance", 2, 100>>,
     <<"CategoryName", 1, 1>>, <<"SubCategoryName", 1, 1>>,
     <<"Acc", 1, 2>>, <<"Fdate", 2, 1>>, <<"Order", 0, 0>> >>

\* Trt and Mo may name a transaction that the document does not hold.
TxnEdits(t) ==
  << <<"Ac", t, 2>>, <<"Pa", t, 0>>, <<"Ca", t, 0>>, <<"Br", t, 1>>,
     <<"Ma", t, MarkedReconciled>>, <<"Re", t, 1>>, <<"Re", t, 2>> >>
  \o [k \in 1..MaxTxn |-> <<"Trt", t, k>>]
  \o [k \in 1..MaxTxn |-> <<"Mo", t, k>>]

RECURSIVE TxnEditsUpTo(_)
TxnEditsUpTo(t) == IF t = 0 THEN <<>> ELSE TxnEditsUpTo(t - 1) \o TxnEdits(t)

\* Every edit; those of a document with n transactions are the first
\* NumEdits(n).
AllEdits == GlobalEdits \o TxnEditsUpTo(MaxTxn)

NumEdits(n) == Len(GlobalEdits) + n * Len(TxnEdits(1))

ApplyEdit(d, e) ==
  LET f == e[1]  t == e[2]  v == e[3] IN
  CASE f = "Initial_balance" -> [d EXCEPT !.bal[t] = v]
    [] f = "CategoryName"    -> [d EXCEPT !.catBad = TRUE]
    [] f = "SubCategoryName" -> [d EXCEPT !.subBad = TRUE]
    [] f = "Acc"             -> [d EXCEPT !.recs[t].Acc = v]
    [] f = "Fdate"           -> [d EXCEPT !.recs[t].Fdate = v]
    [] f = "Order"           -> [d EXCEPT !.order = Reverse(d.order)]
    [] f = "Ac"  -> [d EXCEPT !.txns[t].Ac = v]
    [] f = "Pa"  -> [d EXCEPT !.txns[t].Pa = v]
    [] f = "Ca"  -> [d EXCEPT !.txns[t].Ca = v]
    [] f = "Br"  -> [d EXCEPT !.txns[t].Br = v]
    [] f = "Ma"  -> [d EXCEPT !.txns[t].Ma = v]
    [] f = "Re"  -> [d EXCEPT !.txns[t].Re = v]
    [] f = "Trt" -> [d EXCEPT !.txns[t].Trt = v]
    [] f = "Mo"  -> [d EXCEPT !.txns[t].Mo = v]

\* Document d with the edits that s numbers, made in ascending order.
RECURSIVE ApplyEdits(_, _)
ApplyEdits(d, s) ==
  IF s = {} THEN d
  ELSE LET i == CHOOSE x \in s : \A y \in s : x <= y
       IN ApplyEdits(ApplyEdit(d, AllEdits[i]), s \ {i})

\* A document of Spec: the plain document of n transactions, changed in
\* the attribute values that s numbers.
PipelineDoc(n, s) == ApplyEdits(PlainDoc(n), s)

\* The documents of the collapsing specification: MaxTxn transactions, each
\* with any contra, any mother and either split flag.
CollapseDoc(tr, mo, br) ==
  [PlainDoc(MaxTxn) EXCEPT
     !.txns = [i \in TxnIds |-> [PlainTxn EXCEPT !.Trt = tr[i], !.Mo = mo[i],
                                                 !.Br = br[i]]]]

----------------------------------------------------------------------------
(* Transaction.__init__ and the resolution pass of Data.__init__.          *)

\* Transaction.__init__: the object made from one Transaction element.
NewTransaction(i, x) ==
  [number             |-> i,
   account            |-> x.Ac,
   party              |-> x.Pa,
   category           |-> x.Ca,
   is_split           |-> x.Br = 1,
   reconciled         |-> x.Ma = MarkedReconciled,
   reconciliation     |-> IF x.Ma = MarkedReconciled /\ x.Re # 0
                          THEN RawRec(x.Re) ELSE NoRec,
   contra_transaction |-> x.Trt,
   mother             |-> x.Mo,
   children           |-> <<>>,
   date               |-> x.Dt,
   bank_reference     |-> IF x.Ba = Null THEN None ELSE Str(x.Ba)]

\* Whether Transaction.resolve_references of object i finds every key it
\* looks up (a missing one raises KeyError).
ResolveFinds(d, objs, i) ==
  LET t == objs[i] IN
  /\ t.account \in DOMAIN d.bal
  /\ t.reconciliation = NoRec \/ t.reconciliation[2] \in DOMAIN d.recs
  /\ t.contra_transaction = 0 \/ t.contra_transaction \in DOMAIN objs
  /\ t.mother = 0 \/ t.mother \in DOMAIN objs

\* Transaction.resolve_references of object i, given the objects as they
\* are when it runs: the mother's reconciled and reconciliation are copied
\* as the mother holds them at that moment, and so is the mother's date
\* when the transaction has none.
ResolveOne(objs, i) ==
  LET t  == objs[i]
      t1 == [t EXCEPT !.reconciliation =
                        IF t.reconciliation = NoRec THEN NoRec
                        ELSE RecObj(t.reconciliation[2])]
      o1 == [objs EXCEPT ![i] = t1]
  IN IF t.mother = 0 THEN o1
     ELSE LET o2 == [o1 EXCEPT ![t.mother].children = Append(@, i)]
              m  == o2[t.mother]
          IN [o2 EXCEPT ![i].date           = IF @ = 0 THEN m.date ELSE @,
                        ![i].reconciled     = m.reconciled,
                        ![i].reconciliation = m.reconciliation]

\* "for j in i: i[j].resolve_references(self)" over self.transactions, in
\* document order.
RECURSIVE ResolveAll(_, _, _)
ResolveAll(d, objs, k) ==
  IF k > Len(d.order) THEN [objs |-> objs, error |-> "none"]
  ELSE IF ~ResolveFinds(d, objs, d.order[k])
       THEN [objs |-> objs, error |-> "KeyError"]
       ELSE ResolveAll(d, ResolveOne(objs, d.order[k]), k + 1)

\* Currency.__init__: the object made from one Currency element.
NewCurrency(c, x) ==
  [number        |-> c,
   symbol        |-> IF x.Co = Null THEN None ELSE Str(x.Co),
   abbreviation  |-> x.Ico,
   ledger_symbol |-> None]

\* (Faulty variant of LedgerSymbol: the first currency loaded keeps the
\* symbol, whatever its number.)
LedgerSymbolFirstLoaded(curs, order, c) ==
  IF \/ curs[c].symbol = None
     \/ \E k, l \in DOMAIN order :
          k < l /\ order[l] = c /\ curs[order[k]].symbol = curs[c].symbol
  THEN curs[c].abbreviation
  ELSE curs[c].symbol[2]

\* Currency.resolve_references: the abbreviation when the currency has no
\* symbol or a currency with a smaller number has the same symbol, else
\* the symbol. curs holds every Currency object, order their load order.
LedgerSymbol(curs, order, c) ==
  IF \/ curs[c].symbol = None
     \/ \E i \in DOMAIN curs :
          curs[i].number < curs[c].number /\ curs[i].symbol = curs[c].symbol
  THEN curs[c].abbreviation
  ELSE curs[c].symbol[2]

\* "for j in i: i[j].resolve_references(self)" over self.currencies, in
\* document order: every currency is in the mapping before the first is
\* resolved, and resolving one changes only its own ledger_symbol.
RECURSIVE ResolveCurrencies(_, _, _)
ResolveCurrencies(curs, order, k) ==
  IF k > Len(order) THEN curs
  ELSE ResolveCurrencies(
         [curs EXCEPT ![order[k]].ledger_symbol =
                        Str(LedgerSymbol(curs, order, order[k]))],
         order, k + 1)

\* Data.__init__.
Construct(d) ==
  LET r == ResolveAll(d, [i \in DOMAIN d.txns |-> NewTransaction(i, d.txns[i])], 1)
  IN [data  |-> [objs         |-> r.objs,
                 transactions |-> DOMAIN d.txns,
                 currencies   |-> ResolveCurrencies(
                                    [c \in DOMAIN d.curs |-> NewCurrency(c, d.curs[c])],
                                    d.curOrder, 1)],
      error |-> r.error]

NoData == [objs |-> <<>>, transactions |-> {}, currencies |-> <<>>]

----------------------------------------------------------------------------
(* Data.check.                                                             *)

Finding(c, w, n) == [check |-> c, what |-> w, number |-> n]

\* Check 1: a transaction without a party that is not a split.
NoPartyFindings(dat) ==
  {Finding(1, "Transaction", i) : i \in
     {i \in dat.transactions : dat.objs[i].party = 0 /\ ~dat.objs[i].is_split}}

\* Check 2: a split without children, or a non-split with children.
SplitFindings(dat) ==
  {Finding(2, "Transaction", i) : i \in
     {i \in dat.transactions :
        \/ dat.objs[i].is_split /\ dat.objs[i].children = <<>>
        \/ ~dat.objs[i].is_split /\ dat.objs[i].children # <<>>}}

\* Check 3: transaction i has a contra whose contra is not i.
ContraAsymmetric(dat, i) ==
  /\ dat.objs[i].contra_transaction # 0
  /\ dat.objs[dat.objs[i].contra_transaction].contra_transaction # i

\* The message of check 3 reads txn.contra_transaction.contra_transaction
\* .number, which raises AttributeError when the contra has no contra.
ContraMessageRaises(dat, i) ==
  /\ ContraAsymmetric(dat, i)
  /\ dat.objs[dat.objs[i].contra_transaction].contra_transaction = 0

\* Check 3 runs in ascending order of number and stops at the first
\* transaction whose message raises.
ContraRaises(dat) == \E i \in dat.transactions : ContraMessageRaises(dat, i)

ContraFindings(dat) ==
  {Finding(3, "Transaction", i) : i \in
     {i \in dat.transactions :
        /\ ContraAsymmetric(dat, i)
        /\ \A j \in dat.transactions : j <= i => ~ContraMessageRaises(dat, j)}}

\* Check 4: no category, no contra and not a split.
NoCategoryFindings(dat) ==
  {Finding(4, "Transaction", i) : i \in
     {i \in dat.transactions :
        /\ dat.objs[i].category = 0
        /\ dat.objs[i].contra_transaction = 0
        /\ ~dat.objs[i].is_split}}

\* Check 5: two spaces or a tab in a category or subcategory name.
NameFindings(d) ==
  (IF d.catBad THEN {Finding(5, "Category", 1)} ELSE {})
  \cup (IF d.subBad THEN {Finding(5, "Subcategory", 1)} ELSE {})

\* Check 6: a transaction and its contra are both part of splits.
BothInSplitsFindings(dat) ==
  {Finding(6, "Transaction", i) : i \in
     {i \in dat.transactions :
        /\ dat.objs[i].contra_transaction # 0
        /\ dat.objs[i].mother # 0
        /\ dat.objs[dat.objs[i].contra_transaction].mother # 0}}

\* Check 7: a reconciliation on the account and date of one seen before it
\* (self.reconciles is in document order, here the order of the numbers).
SameDayFindings(d) ==
  {Finding(7, "Reconciliation", r) : r \in
     {r \in DOMAIN d.recs : \E q \in DOMAIN d.recs :
        q < r /\ d.recs[q].Acc = d.recs[r].Acc /\ d.recs[q].Fdate = d.recs[r].Fdate}}

\* Check 8: reconciled without a reconciliation.
NoReconciliationFindings(dat) ==
  {Finding(8, "Transaction", i) : i \in
     {i \in dat.transactions :
        dat.objs[i].reconciled /\ dat.objs[i].reconciliation = NoRec}}

\* Check 9 calls outer_txn.all_transactions() on the first transaction;
\* class Transaction defines no such method, so the call raises
\* AttributeError whenever there is a transaction.
AllTransactionsRaises(dat) == dat.transactions # {}

\* Data.check: what it printed, and whether it returned True, returned
\* False or raised.
CheckRun(d, dat) ==
  IF ContraRaises(dat)
  THEN [findings |-> NoPartyFindings(dat) \cup SplitFindings(dat)
                       \cup ContraFindings(dat),
        outcome  |-> "AttributeError"]
  ELSE LET f == NoPartyFindings(dat) \cup SplitFindings(dat)
                  \cup ContraFindings(dat) \cup NoCategoryFindings(dat)
                  \cup NameFindings(d) \cup BothInSplitsFindings(dat)
                  \cup SameDayFindings(d) \cup NoReconciliationFindings(dat)
       IN [findings |-> f,
           outcome  |-> IF AllTransactionsRaises(dat) THEN "AttributeError"
                        ELSE IF f = {} THEN "True" ELSE "False"]

\* The graphs Data.clean is written for: checks 1 to 8 find nothing.
ChecksPass(d, dat) ==
  /\ ~ContraRaises(dat)
  /\ CheckRun(d, dat).findings = {}

----------------------------------------------------------------------------
(* Data.clean.                                                             *)

Range(s) == {s[i] : i \in DOMAIN s}

\* The keys of self.transactions in dictionary (document) order.
KeysInOrder(d, dat) == SelectSeq(d.order, LAMBDA i : i \in dat.transactions)

\* (Faulty variant of ChildRemovals: the contra of a child is not removed.)
ChildRemovalsChildOnly(dat, c) == <<c>>

\* What one child adds to to_remove: its number, then its contra's.
ChildRemovals(dat, c) ==
  IF dat.objs[c].contra_transaction # 0
  THEN <<c, dat.objs[c].contra_transaction>> ELSE <<c>>

RECURSIVE ChildrenRemovals(_, _, _)
ChildrenRemovals(dat, cs, k) ==
  IF k > Len(cs) THEN <<>>
  ELSE ChildRemovals(dat, cs[k]) \o ChildrenRemovals(dat, cs, k + 1)

\* Step 1: the list to_remove, over the split transactions of the mapping.
RECURSIVE SplitRemovals(_, _, _)
SplitRemovals(dat, keys, k) ==
  IF k > Len(keys) THEN <<>>
  ELSE (IF dat.objs[keys[k]].is_split
        THEN ChildrenRemovals(dat, dat.objs[keys[k]].children, 1) ELSE <<>>)
       \o SplitRemovals(dat, keys, k + 1)

\* "for i in to_remove: del self.transactions[i]": a key that is not in the
\* mapping raises KeyError and ends the loop.
RECURSIVE DeleteAll(_, _, _)
DeleteAll(txs, rem, k) ==
  IF k > Len(rem) THEN [transactions |-> txs, error |-> "none"]
  ELSE IF rem[k] \notin txs THEN [transactions |-> txs, error |-> "KeyError"]
       ELSE DeleteAll(txs \ {rem[k]}, rem, k + 1)

\* sorted(s): a set of numbers as a sequence in ascending order.
RECURSIVE Sorted(_)
Sorted(s) ==
  IF s = {} THEN <<>>
  ELSE LET m == CHOOSE x \in s : \A y \in s : x <= y
       IN <<m>> \o Sorted(s \ {m})

\* (Faulty variant of TransferRemovals: no contra is marked.)
TransferRemovalsNone(dat, keys, k, marked) == marked

\* Step 2: the set to_remove, built over the sorted keys: the contra of
\* every key not marked so far.
RECURSIVE TransferRemovals(_, _, _, _)
TransferRemovals(dat, keys, k, marked) ==
  IF k > Len(keys) THEN marked
  ELSE IF keys[k] \notin marked /\ dat.objs[keys[k]].contra_transaction # 0
       THEN TransferRemovals(dat, keys, k + 1,
                             marked \cup {dat.objs[keys[k]].contra_transaction})
       ELSE TransferRemovals(dat, keys, k + 1, marked)

\* Data.clean: the mapping it leaves and the exception it raised, if any.
CleanRun(d, dat) ==
  LET s1 == DeleteAll(dat.transactions,
                      SplitRemovals(dat, KeysInOrder(d, dat), 1), 1)
  IN IF s1.error # "none" THEN s1
     \* CPython iterates a set of small numbers in ascending order.
     ELSE DeleteAll(s1.transactions,
                    Sorted(TransferRemovals(dat, Sorted(s1.transactions), 1, {})), 1)

----------------------------------------------------------------------------
(* Data.generate_output. The output is the sequence of the entries       *)
(* written to fp, each a record of what the text says; what was written   *)
(* before an exception stays written. The documents give no account a     *)
(* Bank_account_number, so no "note Account number" line is written.      *)

\* Account.ledger_name: "Assets:<name>" for the accounts of the documents,
\* none of which is a liability; the name stands for itself as the number.
LedgerName(a) == <<"Assets", a>>

\* The account that balances the opening balances.
EquityOpeningBalance == <<"Equity:Opening Balance", 0>>

\* "commodity <ledger_symbol>" with its note.
CommodityEntry(dat, c) ==
  [entry |-> "commodity", symbol |-> dat.currencies[c].ledger_symbol]

\* "account <ledger_name>" with "assert commodity == <ledger_symbol>"; each
\* account of the documents holds currency 1.
AccountEntry(dat, a) ==
  [entry |-> "account", account |-> LedgerName(a),
   symbol |-> dat.currencies[1].ledger_symbol]

\* The declarations: commodities, then accounts, each by ascending number.
Declarations(d, dat) ==
  LET cs == Sorted(DOMAIN dat.currencies)
      as == Sorted(DOMAIN d.bal)
  IN [k \in 1..Len(cs) |-> CommodityEntry(dat, cs[k])]
     \o [k \in 1..Len(as) |-> AccountEntry(dat, as[k])]

\* "any(i.initial_balance != 0 for i in self.accounts.values())".
AnyOpeningBalance(d) == \E a \in DOMAIN d.bal : d.bal[a] # 0

\* "min(i.date for i in self.transactions.values())" raises ValueError on
\* an empty mapping; it is evaluated when some account has an opening
\* balance.
OpeningBalanceRaises(d, dat) ==
  /\ AnyOpeningBalance(d)
  /\ dat.transactions = {}

\* min() compares the dates; comparing None with a date or with None
\* raises TypeError.
FirstDateRaises(dat) ==
  /\ Cardinality(dat.transactions) > 1
  /\ \E i \in dat.transactions : dat.objs[i].date = 0

\* (Faulty variant of FirstDate: the earliest date of every transaction
\* loaded.)
FirstDateOfAllLoaded(dat) ==
  CHOOSE m \in {dat.objs[i].date : i \in DOMAIN dat.objs} :
    \A i \in DOMAIN dat.objs : m <= dat.objs[i].date

\* first_date: the earliest date of the transactions of the mapping.
FirstDate(dat) ==
  CHOOSE m \in {dat.objs[i].date : i \in dat.transactions} :
    \A i \in dat.transactions : m <= dat.objs[i].date

\* The postings of the opening balances: one, cleared, for each account
\* with an opening balance, by ascending number.
OpeningPostings(d, dat) ==
  LET as == Sorted({a \in DOMAIN d.bal : d.bal[a] # 0})
  IN [k \in 1..Len(as) |->
        [entry |-> "posting", of |-> "opening", cleared |-> TRUE,
         account |-> LedgerName(as[k]),
         symbol |-> dat.currencies[1].ledger_symbol,
         amount |-> d.bal[as[k]]]]

\* "Generate initial balances": the entries written and the exception
\* raised, if any.
InitialBalances(d, dat) ==
  IF ~AnyOpeningBalance(d) THEN [output |-> <<>>, error |-> "none"]
  ELSE LET decl == <<[entry |-> "account", account |-> EquityOpeningBalance]>>
       IN IF OpeningBalanceRaises(d, dat)
          THEN [output |-> decl, error |-> "ValueError"]
          ELSE IF FirstDateRaises(dat)
          THEN [output |-> decl, error |-> "TypeError"]
          ELSE [output |-> decl
                           \o <<[entry |-> "transaction", of |-> "opening",
                                 date |-> FirstDate(dat)]>>
                           \o OpeningPostings(d, dat)
                           \o <<[entry |-> "posting", of |-> "opening",
                                 cleared |-> TRUE,
                                 account |-> EquityOpeningBalance]>>,
                error  |-> "none"]

\* "Generate the final reconciliations": the marker of every account whose
\* last_reconcile is not None, in the order of the keys of last_reconcile,
\* which is the order of self.accounts, the order of the Account records.
RECURSIVE FinalReconciliations(_, _, _)
FinalReconciliations(d, last, k) ==
  IF k > Len(d.accOrder) THEN <<>>
  ELSE (IF last[d.accOrder[k]] = NoRec THEN <<>>
        ELSE <<[entry |-> "reconciliation",
                rec |-> last[d.accOrder[k]][2]]>>)
       \o FinalReconciliations(d, last, k + 1)

\* The transaction loop and the final reconciliations. The loop calls
\* txn.all_transactions() on the first transaction before it writes
\* anything, which raises AttributeError (no such method); with no
\* transaction, last_reconcile stays None for every account.
TransactionsAndReconciliations(d, dat) ==
  IF AllTransactionsRaises(dat)
  THEN [output |-> <<>>, error |-> "AttributeError"]
  ELSE [output |-> FinalReconciliations(d, [a \in DOMAIN d.bal |-> NoRec], 1),
        error  |-> "none"]

\* Data.generate_output: what it wrote and the exception it raised, if any.
GenerateOutputRun(d, dat) ==
  LET b == InitialBalances(d, dat) IN
  IF b.error # "none"
  THEN [output |-> Declarations(d, dat) \o b.output, error |-> b.error]
  ELSE LET t == TransactionsAndReconciliations(d, dat)
       IN [output |-> Declarations(d, dat) \o b.output \o t.output,
           error  |-> t.error]

GenerateOutputError(d, dat) == GenerateOutputRun(d, dat).error

----------------------------------------------------------------------------
(* main: Data(...), data.check(), data.clean(), open(output),              *)
(* data.generate_output(fp). An exception that nothing catches ends the    *)
(* interpreter with exit status 1, as sys.exit(1) does. exitCode holds the  *)
(* exit status once the process has ended.                                 *)

Running == <<>>
Exited(status) == <<status>>

\* (Faulty variant of GateExits: main goes on whatever data.check returned.)
GateNeverExits(v) == FALSE

\* "if not data.check(): sys.exit(1)".
GateExits(v) == v = "False"

Raise(e) ==
  /\ error' = e
  /\ exitCode' = Exited(1)
  /\ pc' = "exit"

Init ==
  /\ \E n \in 0..MaxTxn :
       \E f \in [1..MaxEdits -> 0..NumEdits(n)] :
         \* each set of at most MaxEdits edits once: 0 is no edit
         /\ \A i \in 1..(MaxEdits - 1) : f[i] = 0 \/ f[i] < f[i + 1]
         /\ doc = PipelineDoc(n, {f[i] : i \in 1..MaxEdits} \ {0})
  /\ data = NoData
  /\ pc = "start"
  /\ verdict = "none"
  /\ findings = {}
  /\ error = "none"
  /\ exitCode = Running
  /\ outputOpened = FALSE
  /\ cleanRuns = 0
  /\ stages = <<>>
  /\ output = <<>>

\* data = Data(grisbiElt)
Load ==
  /\ pc = "start"
  /\ stages' = Append(stages, "Loader")
  /\ LET r == Construct(doc) IN
       IF r.error # "none"
       THEN Raise(r.error) /\ UNCHANGED data
       ELSE /\ data' = r.data
            /\ pc' = "loaded"
            /\ UNCHANGED <<error, exitCode>>
  /\ UNCHANGED <<doc, verdict, findings, outputOpened, cleanRuns, output>>

\* data.check()
Check ==
  /\ pc = "loaded"
  /\ stages' = Append(stages, "Validator")
  /\ LET r == CheckRun(doc, data) IN
       /\ findings' = r.findings
       /\ IF r.outcome = "AttributeError"
          THEN Raise("AttributeError") /\ UNCHANGED verdict
          ELSE /\ verdict' = r.outcome
               /\ pc' = "checked"
               /\ UNCHANGED <<error, exitCode>>
  /\ UNCHANGED <<doc, data, outputOpened, cleanRuns, output>>

\* sys.exit(1)
ExitInvalid ==
  /\ pc = "checked"
  /\ GateExits(verdict)
  /\ exitCode' = Exited(1)
  /\ pc' = "exit"
  /\ UNCHANGED <<doc, data, verdict, findings, error, outputOpened, cleanRuns,
                 stages, output>>

\* data.clean()
Clean ==
  /\ pc = "checked"
  /\ ~GateExits(verdict)
  /\ stages' = Append(stages, "Collapser")
  /\ cleanRuns' = cleanRuns + 1
  /\ LET r == CleanRun(doc, data) IN
       /\ data' = [data EXCEPT !.transactions = r.transactions]
       /\ IF r.error # "none"
          THEN Raise(r.error)
          ELSE pc' = "cleaned" /\ UNCHANGED <<error, exitCode>>
  /\ UNCHANGED <<doc, verdict, findings, outputOpened, output>>

\* open(args.output, "w")
OpenOutput ==
  /\ pc = "cleaned"
  /\ stages' = Append(stages, "Open")
  /\ outputOpened' = TRUE
  /\ pc' = "opened"
  /\ UNCHANGED <<doc, data, verdict, findings, error, exitCode, cleanRuns,
                 output>>

\* data.generate_output(fp), and the end of main.
GenerateOutput ==
  /\ pc = "opened"
  /\ stages' = Append(stages, "Renderer")
  /\ output' = GenerateOutputRun(doc, data).output
  /\ LET e == GenerateOutputError(doc, data) IN
       IF e # "none" THEN Raise(e)
       ELSE /\ exitCode' = Exited(0)
            /\ pc' = "exit"
            /\ UNCHANGED error
  /\ UNCHANGED <<doc, data, verdict, findings, outputOpened, cleanRuns>>

Next == Load \/ Check \/ ExitInvalid \/ Clean \/ OpenOutput \/ GenerateOutput

Spec == Init /\ [][Next]_vars

----------------------------------------------------------------------------
(* Data.clean called on a constructed Data object whose graph passes the   *)
(* checks, MaxCleanRuns times in a row. No transaction is reconciled, so   *)
(* check 9 has nothing to compare.                                         *)

\* What checks 3 and 2 ask of the Trt, Mo and Br attributes: stated first
\* so that the documents that cannot pass are left out early.
SymmetricTrt(tr) == \A i \in TxnIds : tr[i] # 0 => tr[tr[i]] = i

SplitFlagsMatch(mo, br) ==
  \A i \in TxnIds : br[i] = 1 <=> \E c \in TxnIds : mo[c] = i

InitCollapse ==
  /\ \E tr \in [TxnIds -> 0..MaxTxn] :
       /\ SymmetricTrt(tr)
       /\ \E mo \in [TxnIds -> 0..MaxTxn] : \E br \in [TxnIds -> {0, 1}] :
            /\ SplitFlagsMatch(mo, br)
            /\ doc = CollapseDoc(tr, mo, br)
            /\ data = Construct(CollapseDoc(tr, mo, br)).data
            /\ ChecksPass(CollapseDoc(tr, mo, br),
                          Construct(CollapseDoc(tr, mo, br)).data)
  /\ pc = "api"
  /\ verdict = "none"
  /\ findings = {}
  /\ error = "none"
  /\ exitCode = Running
  /\ outputOpened = FALSE
  /\ cleanRuns = 0
  /\ stages = <<>>
  /\ output = <<>>

CleanCall ==
  /\ pc = "api"
  /\ error = "none"
  /\ cleanRuns < MaxCleanRuns
  /\ cleanRuns' = cleanRuns + 1
  /\ LET r == CleanRun(doc, data) IN
       /\ data' = [data EXCEPT !.transactions = r.transactions]
       /\ error' = r.error
  /\ UNCHANGED <<doc, pc, verdict, findings, exitCode, outputOpened, stages,
                 output>>

NextCollapse == CleanCall

SpecCollapse == InitCollapse /\ [][NextCollapse]_vars

----------------------------------------------------------------------------
(* Data(...), data.clean() and data.generate_output(fp) called in turn on  *)
(* a document whose graph passes checks 1 to 8, without Data.check, which  *)
(* raises for every graph with a transaction.                              *)

\* The days of the documents, the bank references and the opening balances.
Days == {1, 2}
BankRefs == {"A", "B"}
Balances == {0, 100}

\* The reconciliations of these documents: 1 and 2 of account 1, 3 of
\* account 2, each on a day of its own.
RenderRecs == <<[Acc |-> 1, Fdate |-> 1], [Acc |-> 1, Fdate |-> 2],
                [Acc |-> 2, Fdate |-> 3]>>

\* The account and reconciliation of a transaction: unreconciled, or
\* reconciled by a reconciliation of its account.
AccountAndRe == {<<1, 0>>, <<1, 1>>, <<1, 2>>, <<2, 0>>, <<2, 3>>}

\* The orders in which k records of a kind can stand in the document.
Orders(k) == {p \in [1..k -> 1..k] : \A i, j \in 1..k : p[i] = p[j] => i = j}

\* n transactions with the contras, mothers and split flags given.
StructureDoc(n, tr, mo, br) ==
  [PlainDoc(n) EXCEPT
     !.txns = [i \in 1..n |-> [PlainTxn EXCEPT !.Trt = tr[i], !.Mo = mo[i],
                                               !.Br = br[i]]],
     !.recs = RenderRecs]

\* What checks 3 and 2 ask of the Trt, Mo and Br attributes of n
\* transactions: stated on the attributes, so that the documents that
\* cannot pass are left out early.
SymmetricTrtOf(n, tr) == \A i \in 1..n : tr[i] # 0 => tr[tr[i]] = i

SplitFlagsMatchOf(n, mo, br) ==
  \A i \in 1..n : br[i] = 1 <=> \E c \in 1..n : mo[c] = i

\* What check 6 asks of the Trt and Mo attributes.
NotBothInSplitsOf(n, tr, mo) ==
  \A i \in 1..n : (tr[i] # 0 /\ mo[i] # 0) => mo[tr[i]] = 0

\* n transactions of a graph, on the days dt; account 1 has an opening
\* balance.
DatedDoc(n, tr, mo, br, dt) ==
  [StructureDoc(n, tr, mo, br) EXCEPT
     !.txns = [i \in 1..n |-> [@[i] EXCEPT !.Dt = dt[i]]],
     !.bal = [a \in AccIds |-> IF a = 1 THEN 100 ELSE 0]]

\* n plain transactions and the opening balances bal.
OpenedDoc(n, bal) == [PlainDoc(n) EXCEPT !.bal = bal, !.recs = RenderRecs]

\* n transactions of a graph, with the bank references ba.
ReferencedDoc(n, tr, mo, br, ba) ==
  [StructureDoc(n, tr, mo, br) EXCEPT
     !.txns = [i \in 1..n |-> [@[i] EXCEPT !.Ba = ba[i]]]]

\* n plain transactions with the accounts and reconciliations ar, the
\* Account records in the order ao.
ReconciledDoc(n, ar, ao) ==
  [PlainDoc(n) EXCEPT
     !.txns = [i \in 1..n |->
                 [PlainTxn EXCEPT
                    !.Ac = ar[i][1],
                    !.Ma = IF ar[i][2] = 0 THEN 0 ELSE MarkedReconciled,
                    !.Re = ar[i][2]]],
     !.accOrder = ao,
     !.recs = RenderRecs]

\* No transaction and k currencies with the symbols co and abbreviations
\* ico, the Currency records in the given order.
CurrencyDoc(k, co, ico, order) ==
  [PlainDoc(0) EXCEPT
     !.curs = [c \in 1..k |-> [Co |-> co[c], Ico |-> ico[c]]],
     !.curOrder = order,
     !.recs = RenderRecs]

\* The documents: a graph of up to MaxTxn transactions with any days (a
\* child of a split may have none), or with any bank references; plain
\* transactions with any opening balances, or with any account and
\* reconciliation, the Account records in either order; no transaction and
\* up to MaxCur currencies with any symbols and abbreviations, in any
\* order.
InitRender ==
  /\ \/ \E n \in 0..MaxTxn : \E tr \in [1..n -> 0..n] :
          /\ SymmetricTrtOf(n, tr)
          /\ \E mo \in [1..n -> 0..n] : \E br \in [1..n -> {0, 1}] :
               /\ SplitFlagsMatchOf(n, mo, br)
               /\ NotBothInSplitsOf(n, tr, mo)
               /\ \/ \E dt \in [1..n -> Days \cup {0}] :
                       /\ \A i \in 1..n : dt[i] = 0 => mo[i] # 0
                       /\ doc = DatedDoc(n, tr, mo, br, dt)
                  \/ \E ba \in [1..n -> BankRefs \cup {Null}] :
                       doc = ReferencedDoc(n, tr, mo, br, ba)
     \/ \E n \in 0..MaxTxn : \E bal \in [AccIds -> Balances] :
          doc = OpenedDoc(n, bal)
     \/ \E n \in 0..MaxTxn : \E ar \in [1..n -> AccountAndRe] :
          \E ao \in Orders(Cardinality(AccIds)) :
            doc = ReconciledDoc(n, ar, ao)
     \/ \E k \in 1..MaxCur :
          \E co \in [1..k -> {Null, "$", "E"}] : \E ico \in [1..k -> {"CAD", "$"}] :
            \E order \in Orders(k) :
              doc = CurrencyDoc(k, co, ico, order)
  /\ data = NoData
  /\ pc = "start"
  /\ verdict = "none"
  /\ findings = {}
  /\ error = "none"
  /\ exitCode = Running
  /\ outputOpened = FALSE
  /\ cleanRuns = 0
  /\ stages = <<>>
  /\ output = <<>>

\* data.clean() on the loaded Data object.
CleanLoaded ==
  /\ pc = "loaded"
  /\ stages' = Append(stages, "Collapser")
  /\ cleanRuns' = cleanRuns + 1
  /\ LET r == CleanRun(doc, data) IN
       /\ data' = [data EXCEPT !.transactions = r.transactions]
       /\ IF r.error # "none"
          THEN Raise(r.error)
          ELSE pc' = "cleaned" /\ UNCHANGED <<error, exitCode>>
  /\ UNCHANGED <<doc, verdict, findings, outputOpened, output>>

NextRender == Load \/ CleanLoaded \/ OpenOutput \/ GenerateOutput

SpecRender == InitRender /\ [][NextRender]_vars

----------------------------------------------------------------------------
(* Properties.                                                             *)

Objs == DOMAIN data.objs
Contra(i) == data.objs[i].contra_transaction
Mother(i) == data.objs[i].mother
Surviving == data.transactions
Ran(stage) == stage \in Range(stages)
Pipeline == <<"Loader", "Validator", "Collapser", "Open", "Renderer">>
IsPrefix(s, t) == Len(s) <= Len(t) /\ \A i \in 1..Len(s) : s[i] = t[i]

\* Every document of SpecRender passes checks 1 to 8.
RenderDocsPassChecks == pc = "loaded" => ChecksPass(doc, data)

\* The mapping that the first call of Data.clean leaves.
AfterFirstClean == CleanRun(doc, Construct(doc).data).transactions

\* C1 (as claimed): a second call of Data.clean on the result of the first
\* completes and leaves the transaction mapping as the first call left it.
C1_SecondCleanIsNoOp ==
  cleanRuns = 2 => (error = "none" /\ Surviving = AfterFirstClean)

\* C2: after Data.clean has run on a graph that passes the checks, no two
\* transactions of the mapping are each other's contra and no transaction
\* of the mapping has its mother in the mapping.
C2_NoContraPairNoMother ==
  cleanRuns >= 1 =>
    \A i \in Surviving :
      /\ \A j \in Surviving : ~(Contra(i) = j /\ Contra(j) = i)
      /\ Mother(i) \notin Surviving

\* Data.clean has run once, without error, on a graph with a transfer and a
\* split, and something is left.
C2_Witness ==
  /\ cleanRuns = 1
  /\ error = "none"
  /\ \E i \in Objs : Contra(i) # 0 /\ Contra(i) # i
  /\ \E c \in Objs : Mother(c) # 0
  /\ Surviving # {}

\* C3 (as claimed): after Data.clean, every split transaction is in the
\* mapping, and none of its children nor any child's contra is.
C3_SplitParentSurvives ==
  cleanRuns >= 1 =>
    \A i \in Objs : data.objs[i].is_split =>
      /\ i \in Surviving
      /\ \A c \in Range(data.objs[i].children) :
           /\ c \notin Surviving
           /\ Contra(c) # 0 => Contra(c) \notin Surviving

InSplit(i) == Mother(i) # 0 \/ (Contra(i) # 0 /\ Mother(Contra(i)) # 0)

\* C4 (as claimed): after Data.clean, of a transaction with a contra, where
\* neither is a child of a split nor the contra of one, exactly one is in
\* the mapping: the one with the smaller number.
C4_LowerLegSurvives ==
  cleanRuns >= 1 =>
    \A i \in Objs : (Contra(i) # 0 /\ ~InSplit(i) /\ ~InSplit(Contra(i))) =>
      /\ Cardinality({i, Contra(i)} \cap Surviving) = 1
      /\ (IF i <= Contra(i) THEN i ELSE Contra(i)) \in Surviving

\* C5 (as claimed): after Data.clean, the higher-numbered contra of a child
\* of a split is in the mapping.
C5_HigherContraSurvives ==
  cleanRuns >= 1 =>
    \A c \in Objs : (Mother(c) # 0 /\ Contra(c) # 0 /\ c < Contra(c)) =>
      Contra(c) \in Surviving

\* C5 (amended): after Data.clean, neither a child of a split nor its
\* higher-numbered contra is in the mapping: step 1 removes both.
C5_BothLegsRemoved ==
  cleanRuns >= 1 =>
    \A c \in Objs : (Mother(c) # 0 /\ Contra(c) # 0 /\ c < Contra(c)) =>
      (c \notin Surviving /\ Contra(c) \notin Surviving)

\* Data.clean has run once, without error, on a graph in which a child of
\* a split has a higher-numbered contra.
C5_Witness ==
  /\ cleanRuns = 1
  /\ error = "none"
  /\ \E c \in Objs : Mother(c) # 0 /\ Contra(c) # 0 /\ c < Contra(c)

\* C6 (as claimed): once Data.check has returned True, nothing raises.
C6_NoErrorAfterValid == verdict = "True" => error = "none"

\* C7: the stages run in the order Loader, Validator, Collapser, opening of
\* the output, Renderer; when Data.check has printed a finding, Data.clean
\* is not called, the output is not opened and the run ends with exit
\* status 1; the output is opened only after Data.check returned True and
\* Data.clean completed.
C7_ValidatorIsGate ==
  /\ IsPrefix(stages, Pipeline)
  /\ findings # {} =>
       /\ ~Ran("Collapser") /\ cleanRuns = 0
       /\ ~Ran("Open") /\ ~outputOpened
       /\ pc \in {"checked", "exit"}
       /\ pc = "exit" => exitCode = Exited(1)
  /\ outputOpened =>
       /\ verdict = "True"
       /\ findings = {}
       /\ Ran("Collapser") /\ cleanRuns = 1
  /\ exitCode = Exited(0) => outputOpened /\ Ran("Renderer")

\* Data.check printed a finding and returned False, and the run has ended.
C7_Witness ==
  /\ pc = "exit"
  /\ findings # {}
  /\ verdict = "False"
  /\ exitCode = Exited(1)

\* C8 (as claimed): when a transaction has a contra whose contra is another
\* transaction or None, Data.check prints the finding of check 3 for it
\* and returns False.
C8_AsymmetricContraIsFinding ==
  \A i \in Objs : (Ran("Validator") /\ ContraAsymmetric(data, i)) =>
    /\ Finding(3, "Transaction", i) \in findings
    /\ verdict = "False"

\* C9 (as claimed): when a transaction is reconciled by a reconciliation of
\* another account, Data.check prints the finding of check 9 for it and
\* returns False.
C9_ForeignReconciliationIsFinding ==
  \A i \in Objs :
    (/\ Ran("Validator")
     /\ data.objs[i].reconciled
     /\ data.objs[i].reconciliation[1] = "Reconcile"
     /\ doc.recs[data.objs[i].reconciliation[2]].Acc # data.objs[i].account) =>
    /\ Finding(9, "Transaction", i) \in findings
    /\ verdict = "False"

\* C10 (as claimed): once Data.__init__ has resolved the references, a
\* transaction with a mother has the reconciled flag and the
\* reconciliation of its mother.
C10_ChildHasMothersReconciliation ==
  \A c \in Objs : (Ran("Loader") /\ Mother(c) # 0) =>
    /\ data.objs[c].reconciled = data.objs[Mother(c)].reconciled
    /\ data.objs[c].reconciliation = data.objs[Mother(c)].reconciliation

\* The places of the output at which the entry e stands.
Places(e) == {k \in DOMAIN output : output[k] = e}

\* The headers of opening-balance transactions in the output.
OpeningHeaders ==
  {k \in DOMAIN output : \E day \in Days \cup {0} :
     output[k] = [entry |-> "transaction", of |-> "opening", date |-> day]}

\* The cleared posting of the opening balance of account a.
OpeningPostingOf(a) ==
  [entry |-> "posting", of |-> "opening", cleared |-> TRUE,
   account |-> LedgerName(a), symbol |-> data.currencies[1].ledger_symbol,
   amount |-> doc.bal[a]]

\* C11 (as claimed): when an account has an opening balance, the output of
\* Data.generate_output holds the declaration of Equity:Opening Balance
\* and one opening-balance transaction: its header, one cleared posting
\* for each account with an opening balance and the posting to
\* Equity:Opening Balance; also when there is no transaction.
C11_OpeningBalanceRendered ==
  (Ran("Renderer") /\ AnyOpeningBalance(doc)) =>
    /\ Cardinality(Places([entry |-> "account",
                           account |-> EquityOpeningBalance])) = 1
    /\ Cardinality(OpeningHeaders) = 1
    /\ \A a \in AccIds :
         Cardinality(Places(OpeningPostingOf(a))) = IF doc.bal[a] # 0 THEN 1 ELSE 0
    /\ Cardinality(Places([entry |-> "posting", of |-> "opening",
                           cleared |-> TRUE,
                           account |-> EquityOpeningBalance])) = 1

\* The reconciliation marker of Reconcile r, as _generate_reconciliation
\* writes it, and the places of the headers of transaction i.
Marker(r) == [entry |-> "reconciliation", rec |-> r]

HeaderPlaces(i) ==
  {k \in DOMAIN output : \E c \in {None} \cup {Str(b) : b \in BankRefs} :
     output[k] = [entry |-> "transaction", number |-> i, code |-> c]}

RecOf(i) == data.objs[i].reconciliation
OnAccount(a) == {i \in Surviving : data.objs[i].account = a}

\* The transactions of account a, by ascending number, are reconciled
\* first by r1 and then by r2.
FirstThen(a, r1, r2) ==
  \E p \in OnAccount(a) :
    /\ \A i \in OnAccount(a) : i <= p => RecOf(i) = RecObj(r1)
    /\ \A i \in OnAccount(a) : i > p => RecOf(i) = RecObj(r2)
    /\ \E i \in OnAccount(a) : i > p

\* C12 (as claimed): when the transactions of an account are reconciled
\* first by R1 and then by another R2, the output holds one marker of R1,
\* after the headers of the transactions of R1 and before those of R2, and
\* one marker of R2 after the header of every transaction.
C12_MarkerBetweenR1AndR2 ==
  \A a \in AccIds : \A r1, r2 \in DOMAIN doc.recs :
    (Ran("Renderer") /\ r1 # r2 /\ FirstThen(a, r1, r2)) =>
      /\ Cardinality(Places(Marker(r1))) = 1
      /\ Cardinality(Places(Marker(r2))) = 1
      /\ \A i \in Surviving : HeaderPlaces(i) # {}
      /\ \A m1 \in Places(Marker(r1)) : \A m2 \in Places(Marker(r2)) :
           \A i \in Surviving : \A k \in HeaderPlaces(i) :
             /\ k < m2
             /\ (i \in OnAccount(a) /\ RecOf(i) = RecObj(r1)) => k < m1
             /\ (i \in OnAccount(a) /\ RecOf(i) = RecObj(r2)) => m1 < k

Cur(c) == data.currencies[c]

\* Currency c has the smallest number of the currencies with its symbol.
SmallestWithSymbol(c) ==
  \A o \in DOMAIN data.currencies :
    Cur(o).symbol = Cur(c).symbol => Cur(c).number <= Cur(o).number

\* C13: once Data.__init__ has resolved the references, a currency without
\* symbol has its abbreviation as ledger_symbol; of the currencies with the
\* same symbol, the one with the smallest number has the symbol as
\* ledger_symbol and each other one its abbreviation, whatever the order
\* of the Currency records.
C13_SmallestNumberKeepsSymbol ==
  \A c \in DOMAIN data.currencies :
    Cur(c).ledger_symbol =
      IF Cur(c).symbol # None /\ SmallestWithSymbol(c)
      THEN Cur(c).symbol
      ELSE Str(Cur(c).abbreviation)

\* Data.__init__ has resolved a document in which two currencies have the
\* same symbol, the one with the larger number stands first and differs
\* in symbol and abbreviation, and a third currency has no symbol.
C13_Witness ==
  /\ Ran("Loader")
  /\ \E c1, c2, c3 \in DOMAIN data.currencies :
       /\ c1 < c2
       /\ Cur(c1).symbol # None
       /\ Cur(c1).symbol = Cur(c2).symbol
       /\ Str(Cur(c2).abbreviation) # Cur(c2).symbol
       /\ \E k, l \in DOMAIN doc.curOrder :
            k < l /\ doc.curOrder[k] = c2 /\ doc.curOrder[l] = c1
       /\ Cur(c3).symbol = None
       /\ Cur(c1).ledger_symbol = Cur(c1).symbol
       /\ Cur(c2).ledger_symbol = Str(Cur(c2).abbreviation)
       /\ Cur(c3).ledger_symbol = Str(Cur(c3).abbreviation)

\* The days of the opening-balance transactions in the output.
OpeningDays ==
  {day \in Days \cup {0} :
     Places([entry |-> "transaction", of |-> "opening", date |-> day]) # {}}

DateOf(i) == data.objs[i].date

\* C16 (as claimed): the opening-balance transaction has the earliest date
\* of all the transactions loaded, those that Data.clean took out of the
\* mapping included.
C16_DatedOnEarliestLoaded ==
  \A day \in OpeningDays : \A i \in Objs : DateOf(i) # 0 => day <= DateOf(i)

\* C16 (amended): the opening-balance transaction has the earliest date of
\* the transactions that Data.clean left in the mapping.
C16_DatedOnEarliestSurviving ==
  \A day \in OpeningDays :
    /\ \E i \in Surviving : day = DateOf(i)
    /\ \A i \in Surviving : day <= DateOf(i)

\* Data.generate_output has written an opening-balance transaction for a
\* graph in which a transaction that Data.clean took out of the mapping
\* has an earlier date than every transaction left in it.
C16_Witness ==
  /\ Ran("Renderer")
  /\ OpeningDays # {}
  /\ \E j \in Objs \ Surviving :
       DateOf(j) # 0 /\ \A i \in Surviving : DateOf(j) < DateOf(i)

\* Transaction i, its children and the contras of all of these.
WithContras(i) ==
  LET flat == {i} \cup Range(data.objs[i].children)
  IN flat \cup ({Contra(j) : j \in flat} \ {0})

BankRefOf(j) == data.objs[j].bank_reference
RefsOf(i) == {BankRefOf(j) : j \in WithContras(i)} \ {None}

\* The places of the header of transaction i with the code c, and of the
\* posting of record j with the bank reference c as comment.
CodePlaces(i, c) ==
  Places([entry |-> "transaction", number |-> i, code |-> c])

CommentPlaces(j, c) ==
  Places([entry |-> "posting", number |-> j, comment |-> c])

\* C14 (as claimed): for a transaction of the mapping Data.generate_output
\* has written, of the bank references of the transaction, its children
\* and their contras: the only one as the code of the header and none as
\* a comment; of several, none as the code and each as a comment of the
\* posting of its record; of none, no code and no comment.
C14_BankReferenceCodeOrComments ==
  Ran("Renderer") =>
    \A i \in Surviving :
      /\ \A c \in RefsOf(i) :
           IF Cardinality(RefsOf(i)) = 1
           THEN CodePlaces(i, c) # {}
           ELSE CodePlaces(i, c) = {}
      /\ \A j \in WithContras(i) : \A b \in BankRefs :
           IF Cardinality(RefsOf(i)) > 1 /\ BankRefOf(j) = Str(b)
           THEN CommentPlaces(j, Str(b)) # {}
           ELSE CommentPlaces(j, Str(b)) = {}

\* The reconciliation of the last transaction of account a in the mapping
\* (of transactions without children and contras): what is tracked for the
\* account after the last transaction.
Pending(a) ==
  IF OnAccount(a) = {} THEN NoRec
  ELSE RecOf(CHOOSE i \in OnAccount(a) : \A j \in OnAccount(a) : j <= i)

\* The markers of the accounts with a pending reconciliation, by ascending
\* account number.
PendingMarkers ==
  LET as == Sorted({a \in AccIds : Pending(a) # NoRec})
  IN [k \in 1..Len(as) |-> Marker(Pending(as[k])[2])]

\* C15 (as claimed): the output of Data.generate_output ends with the
\* markers of the reconciliations still pending, one for each account, by
\* ascending account number, whatever the order of the Account records.
C15_FinalMarkersByAccountNumber ==
  Ran("Renderer") =>
    /\ Len(output) >= Len(PendingMarkers)
    /\ \A k \in 1..Len(PendingMarkers) :
         output[Len(output) - Len(PendingMarkers) + k] = PendingMarkers[k]

\* No output holds the marker of a Reconcile.
NoMarkerWritten == \A r \in DOMAIN doc.recs : Places(Marker(r)) = {}

\* Data.generate_output has run on a graph whose transactions of account 1
\* are reconciled by Reconcile 1, then not reconciled, then reconciled by
\* Reconcile 1 again.
InterleavedRendered ==
  /\ Ran("Renderer")
  /\ \E i, j, k \in OnAccount(1) :
       /\ i < j /\ j < k
       /\ RecOf(i) = RecObj(1) /\ RecOf(j) = NoRec /\ RecOf(k) = RecObj(1)

====
